---------------------------- MODULE Spec2Model ----------------------------
(***************************************************************************)
(* A model of rsc_regex.py: the compiler from expression trees to a        *)
(* program of Char/Match/Jump/Split instructions, and the explicit-thread  *)
(* executor (match / run_thread) that runs such a program on a text.       *)
(*                                                                         *)
(* Python strings are sequences of one-character strings; Python's         *)
(* 0-based pc and textp index the 1-based TLA+ sequences at pc+1, textp+1. *)
(***************************************************************************)
EXTENDS Integers, Sequences, FiniteSets

VARIABLES
    expr,      \* the expression tree handed to compile (NoExpr before a call)
    compiled,  \* what compile did: pending, a program, or the error raised
    ops,       \* match's argument: the program being run
    text,      \* match's argument: the text
    threads,   \* match's local list of pending threads
    pc,        \* run_thread's local pc
    textp,     \* run_thread's local textp
    st,        \* where control is: "idle", "match", "run", "exec", "done"
    result,    \* what match did: "none", "true", "false" or the error raised
    native,    \* what native_compile did: pending, the lines, or the error raised
    call2      \* the locals of a second call of match on the same program

vars == <<expr, compiled, ops, text, threads, pc, textp, st, result, native, call2>>

-----------------------------------------------------------------------------
(* Bounds of the model *)

MaxOps == 2        \* operator nodes (Seq, Alt, Maybe, Star, Plus) in a tree
MaxTextLen == 2    \* characters in a text
MaxProgLen == 2    \* instructions in a hand-built program
MaxExtraSplits == 2 \* leading Splits beyond MAX_THREADS in a chain program
MaxExtraAlts == 1   \* Alt nodes beyond MAX_THREADS in a chain of alternations

Alphabet == {"a", "b"}

-----------------------------------------------------------------------------
(* Expression trees (Seq is SeqExpr here: Sequences defines Seq) *)

Lit(value) == [tag |-> "Lit", value |-> value]
SeqExpr(left, right) == [tag |-> "Seq", left |-> left, right |-> right]
Alt(left, right) == [tag |-> "Alt", left |-> left, right |-> right]
Maybe(e) == [tag |-> "Maybe", expr |-> e]
Star(e) == [tag |-> "Star", expr |-> e]
Plus(e) == [tag |-> "Plus", expr |-> e]

NoExpr == [tag |-> "NoExpr"]

(* Instructions *)

Char(value) == [op |-> "Char", value |-> value]
Match == [op |-> "Match"]
Jump(target) == [op |-> "Jump", target |-> target]
Split(target1, target2) == [op |-> "Split", target1 |-> target1, target2 |-> target2]

Thread(tpc, ttextp) == [pc |-> tpc, textp |-> ttextp]

MAX_THREADS == 10

-----------------------------------------------------------------------------
(* compile *)

Ok(prog) == [err |-> "none", prog |-> prog]
Raise(err) == [err |-> err]
Pending == [err |-> "pending"]

\* compile without the assertion on the literal's length
CompileLitUnchecked(value) == Ok(<<Char(value)>>)

CompileLit(value) ==
    IF Len(value) = 1 THEN Ok(<<Char(value)>>) ELSE Raise("AssertionError")

\* compile emitting the right block first
CompileSeqSwapped(left, right) == right \o left

CompileSeq(left, right) == left \o right

\* the Split's second offset one short: it lands on the Jump, not on the right block
CompileAltSplitShort(left, right) ==
    <<Split(0, Len(left))>> \o left \o <<Jump(Len(right) + 1)>> \o right

CompileAlt(left, right) ==
    <<Split(0, Len(left) + 1)>> \o left \o <<Jump(Len(right) + 1)>> \o right

RECURSIVE compile(_)
compile(e) ==
    IF e.tag = "Lit" THEN CompileLit(e.value)
    ELSE IF e.tag = "Seq" THEN
        LET left == compile(e.left) IN
        IF left.err # "none" THEN left
        ELSE LET right == compile(e.right) IN
             IF right.err # "none" THEN right
             ELSE Ok(CompileSeq(left.prog, right.prog))
    ELSE IF e.tag = "Alt" THEN
        LET left == compile(e.left) IN
        IF left.err # "none" THEN left
        ELSE LET right == compile(e.right) IN
             IF right.err # "none" THEN right
             ELSE Ok(CompileAlt(left.prog, right.prog))
    ELSE Raise("NotImplementedError")

-----------------------------------------------------------------------------
(* The inputs the model draws *)

LitValues == {<<>>, <<"a">>, <<"b">>, <<"a", "b">>}

\* the expression trees with exactly k operator nodes
RECURSIVE ExprsWithOps(_)
ExprsWithOps(k) ==
    IF k = 0 THEN {Lit(v) : v \in LitValues}
    ELSE {Maybe(e) : e \in ExprsWithOps(k - 1)}
         \cup {Star(e) : e \in ExprsWithOps(k - 1)}
         \cup {Plus(e) : e \in ExprsWithOps(k - 1)}
         \cup UNION {{SeqExpr(l, r) : l \in ExprsWithOps(i), r \in ExprsWithOps(k - 1 - i)}
                     : i \in 0..(k - 1)}
         \cup UNION {{Alt(l, r) : l \in ExprsWithOps(i), r \in ExprsWithOps(k - 1 - i)}
                     : i \in 0..(k - 1)}

\* k alternations nested to the left, ((a|a)|a)|..., and to the right
RECURSIVE LeftAlts(_)
LeftAlts(k) ==
    IF k = 0 THEN Lit(<<"a">>) ELSE Alt(LeftAlts(k - 1), Lit(<<"a">>))

RECURSIVE RightAlts(_)
RightAlts(k) ==
    IF k = 0 THEN Lit(<<"a">>) ELSE Alt(Lit(<<"a">>), RightAlts(k - 1))

AltChains ==
    {LeftAlts(k) : k \in 1..(MAX_THREADS + MaxExtraAlts)}
    \cup {RightAlts(k) : k \in 1..(MAX_THREADS + MaxExtraAlts)}

\* every small tree, and the chains that bring the pending list to its ceiling
Exprs == UNION {ExprsWithOps(k) : k \in 0..MaxOps} \cup AltChains

Texts == UNION {[1..n -> Alphabet] : n \in 0..MaxTextLen}

\* an instruction no branch of run_thread recognises
Bogus == [op |-> "Bogus"]

\* the instructions that may stand at address i of a program of n instructions
\* with every Jump/Split target i+1+offset inside [0, n]
InstrsAt(i, n) ==
    {Char(<<c>>) : c \in Alphabet} \cup {Match, Bogus}
    \cup {Jump(t - (i + 1)) : t \in 0..n}
    \cup {Split(t1 - (i + 1), t2 - (i + 1)) : t1 \in 0..n, t2 \in 0..n}

RECURSIVE ProgsFrom(_, _)
ProgsFrom(i, n) ==
    IF i >= n THEN {<<>>}
    ELSE {<<ins>> \o rest : ins \in InstrsAt(i, n), rest \in ProgsFrom(i + 1, n)}

Programs == UNION {ProgsFrom(0, n) : n \in 0..MaxProgLen}

-----------------------------------------------------------------------------
(* match and run_thread *)

\* native_compile not called yet
NativeIdle == [err |-> "pending", returned |-> FALSE, out |-> <<>>]

\* no second call of match
NoCall ==
    [text |-> <<>>, threads |-> <<>>, pc |-> 0, textp |-> 0,
     st |-> "idle", result |-> "none"]

Init ==
    /\ expr = NoExpr
    /\ compiled = Pending
    /\ ops = <<>>
    /\ text = <<>>
    /\ threads = <<>>
    /\ pc = 0
    /\ textp = 0
    /\ st = "idle"
    /\ result = "none"
    /\ native = NativeIdle
    /\ call2 = NoCall

\* a call compile(e)
Compile ==
    /\ st = "idle"
    /\ compiled = Pending
    /\ \E e \in Exprs :
        /\ expr' = e
        /\ compiled' = compile(e)
    /\ UNCHANGED <<ops, text, threads, pc, textp, st, result, native, call2>>

\* match(p, s) up to its first test of `while threads`
StartMatch(p, s) ==
    /\ st = "idle"
    /\ ops' = p
    /\ text' = s
    /\ threads' = <<Thread(0, 0)>>
    /\ st' = "match"
    /\ UNCHANGED <<expr, compiled, pc, textp, result, native, call2>>

\* match(compile(e), s), as the end-to-end tests call it
CallMatchCompiled ==
    /\ st = "idle"
    /\ compiled.err = "none"
    /\ \E s \in Texts : StartMatch(compiled.prog, s)

\* `while threads` finds the list empty: return False
MatchFail ==
    /\ st = "match"
    /\ threads = <<>>
    /\ st' = "done"
    /\ result' = "false"
    /\ UNCHANGED <<expr, compiled, ops, text, threads, pc, textp, native, call2>>

\* the thread read but left on the list
PopRestKept(ths) == ths

PopRest(ths) == SubSeq(ths, 1, Len(ths) - 1)
\* the oldest pending thread read instead of the newest
PopFirst(ths) == ths[1]

PopTop(ths) == ths[Len(ths)]

\* `while threads` finds a thread: run_thread pops it
PopThread ==
    /\ st = "match"
    /\ threads # <<>>
    /\ threads' = PopRest(threads)
    /\ pc' = PopTop(threads).pc
    /\ textp' = PopTop(threads).textp
    /\ st' = "run"
    /\ UNCHANGED <<expr, compiled, ops, text, result, native, call2>>

\* the while loop of run_thread goes round: op = ops[pc]; pc += 1
Fetch ==
    /\ st = "run"
    /\ pc < Len(ops)
    /\ pc' = pc + 1
    /\ st' = "exec"
    /\ UNCHANGED <<expr, compiled, ops, text, threads, textp, result, native, call2>>

\* the fetched instruction (pc is already past it)
Op == ops[pc]

Fetching(kind) ==
    /\ st = "exec"
    /\ Op.op = kind

\* a Char that compares nothing: only the end of the text fails it
CharFailsAtEndOnly(s, tp, value) == tp >= Len(s)

CharFails(s, tp, value) == tp >= Len(s) \/ <<s[tp + 1]>> # value

\* a failed Char is the thread's return False: back to match's `while threads`
ExecChar ==
    /\ Fetching("Char")
    /\ IF CharFails(text, textp, Op.value)
       THEN /\ st' = "match"
            /\ UNCHANGED textp
       ELSE /\ st' = "run"
            /\ textp' = textp + 1
    /\ UNCHANGED <<expr, compiled, ops, text, threads, pc, result, native, call2>>

\* a Jump that goes back to itself
JumpTargetSelf(next, op) == next - 1

JumpTarget(next, op) == next + op.target

ExecJump ==
    /\ Fetching("Jump")
    /\ pc' = JumpTarget(pc, Op)
    /\ st' = "run"
    /\ UNCHANGED <<expr, compiled, ops, text, threads, textp, result, native, call2>>

\* a thread's True recorded while match goes on with the pending threads
ExecMatchKeepsGoing ==
    /\ Fetching("Match")
    /\ st' = "match"
    /\ result' = "true"
    /\ UNCHANGED <<expr, compiled, ops, text, threads, pc, textp, native, call2>>

\* a thread's return True makes match return True
ExecMatch ==
    /\ Fetching("Match")
    /\ st' = "done"
    /\ result' = "true"
    /\ UNCHANGED <<expr, compiled, ops, text, threads, pc, textp, native, call2>>

\* the ceiling tested one thread late
TooManyThreadsLate(ths) == Len(ths) > MAX_THREADS
\* the deferred thread started where the eager one continues
DeferredAtEager(next, op, tp) == Thread(next + op.target1, tp)
\* the deferred thread dropped instead of pushed
PushDropped(ths, t) == ths

\* the ceiling tested as if the push had been done
TooManyThreadsEarly(ths) == Len(ths) + 1 >= MAX_THREADS
\* the current thread falling through to the next instruction
EagerFallThrough(next, op) == next

TooManyThreads(ths) == Len(ths) >= MAX_THREADS
Deferred(next, op, tp) == Thread(next + op.target2, tp)
Eager(next, op) == next + op.target1
Push(ths, t) == Append(ths, t)

\* the RuntimeError leaves run_thread and match: the call ends, nothing returned
ExecSplit ==
    /\ Fetching("Split")
    /\ IF TooManyThreads(threads)
       THEN /\ st' = "done"
            /\ result' = "RuntimeError"
            /\ UNCHANGED <<threads, pc>>
       ELSE /\ threads' = Push(threads, Deferred(pc, Op, textp))
            /\ pc' = Eager(pc, Op)
            /\ st' = "run"
            /\ UNCHANGED result
    /\ UNCHANGED <<expr, compiled, ops, text, textp, native, call2>>

\* the else branch: NotImplementedError
ExecUnsupported ==
    /\ st = "exec"
    /\ Op.op \notin {"Char", "Jump", "Match", "Split"}
    /\ st' = "done"
    /\ result' = "NotImplementedError"
    /\ UNCHANGED <<expr, compiled, ops, text, threads, pc, textp, native, call2>>

\* the while loop of run_thread ends: return True, and match returns True
ThreadEnd ==
    /\ st = "run"
    /\ pc >= Len(ops)
    /\ st' = "done"
    /\ result' = "true"
    /\ UNCHANGED <<expr, compiled, ops, text, threads, pc, textp, native, call2>>

\* compile, then match on what it returned
Next ==
    \/ Compile
    \/ CallMatchCompiled
    \/ MatchFail
    \/ PopThread
    \/ Fetch
    \/ ExecChar
    \/ ExecJump
    \/ ExecSplit
    \/ ThreadEnd

Spec == Init /\ [][Next]_vars

\* compile and match are synchronous computations: they keep taking steps
FairSpec == Spec /\ WF_vars(Next)

\* match(p, s) has been called on a hand-built program p: line 131 has run
InitProg ==
    /\ expr = NoExpr
    /\ compiled = Pending
    /\ ops \in Programs
    /\ text \in Texts
    /\ threads = <<Thread(0, 0)>>
    /\ pc = 0
    /\ textp = 0
    /\ st = "match"
    /\ result = "none"
    /\ native = NativeIdle
    /\ call2 = NoCall

\* match on hand-built programs
NextProg ==
    \/ MatchFail
    \/ PopThread
    \/ Fetch
    \/ ExecChar
    \/ ExecJump
    \/ ExecMatch
    \/ ExecSplit
    \/ ExecUnsupported
    \/ ThreadEnd

SpecProg == InitProg /\ [][NextProg]_vars

\* k leading Splits, each with first offset 0; the second offsets all go to the
\* next instruction ("next") or all to the instruction after the chain ("tail")
SplitChain(k, mode) ==
    [i \in 1..k |-> Split(0, IF mode = "next" THEN 0 ELSE k - i)]

\* what may follow a chain of k Splits (nothing that would lengthen the chain)
Tails(k) ==
    { <<>>,
      <<Char(<<"a">>)>>,
      <<Match>>,
      <<Bogus>>,
      <<Jump(0)>>,
      <<Char(<<"a">>), Split(0, 0)>>,
      <<Split(-1, 0)>>,
      <<Jump(0 - (k + 1))>> }

SplitPrograms ==
    UNION {{SplitChain(k, mode) \o t : mode \in {"next", "tail"}, t \in Tails(k)}
           : k \in 0..(MAX_THREADS + MaxExtraSplits)}

\* match(p, s) has been called on a program that starts with a chain of Splits
InitSplits ==
    /\ expr = NoExpr
    /\ compiled = Pending
    /\ ops \in SplitPrograms
    /\ text \in Texts
    /\ threads = <<Thread(0, 0)>>
    /\ pc = 0
    /\ textp = 0
    /\ st = "match"
    /\ result = "none"
    /\ native = NativeIdle
    /\ call2 = NoCall

SpecSplits == InitSplits /\ [][NextProg]_vars

-----------------------------------------------------------------------------
(* native_compile *)

\* ord() of the characters of the alphabet
Codes == [a |-> 97, b |-> 98]
ord(value) == Codes[value[1]]

\* the decimal digits of n, as an f-string's {n} writes them
RECURSIVE DecDigits(_)
DecDigits(n) ==
    IF n < 10 THEN <<n>> ELSE Append(DecDigits(n \div 10), n % 10)

\* the lines native_compile writes: the text before the number, the prefix of
\* the number and the digits after it
Cmpb(n) == [ins |-> "cmpb [rdi], ", prefix |-> "0x", digits |-> DecDigits(n)]
Jne == [ins |-> "jne .Lno_match", prefix |-> "", digits |-> <<>>]
IncRdi == [ins |-> "inc rdi", prefix |-> "", digits |-> <<>>]

NativeOk(lines) == [err |-> "none", returned |-> TRUE, out |-> lines]
NativeRaise(err) == [err |-> err, returned |-> FALSE, out |-> <<>>]

\* the loop of native_compile over ops[i..]: three lines per Char, and
\* NotImplementedError at the first instruction that is not a Char
RECURSIVE NativeFrom(_, _, _)
NativeFrom(p, i, lines) ==
    IF i > Len(p) THEN NativeOk(lines)
    ELSE IF p[i].op = "Char"
         THEN NativeFrom(p, i + 1, lines \o <<Cmpb(ord(p[i].value)), Jne, IncRdi>>)
         ELSE NativeRaise("NotImplementedError")

native_compile(p) == NativeFrom(p, 1, <<>>)

\* a call native_compile(ops)
NativeCompile ==
    /\ native = NativeIdle
    /\ native' = native_compile(ops)
    /\ UNCHANGED <<expr, compiled, ops, text, threads, pc, textp, st, result, call2>>

InitNative ==
    /\ expr = NoExpr
    /\ compiled = Pending
    /\ ops \in Programs
    /\ text = <<>>
    /\ threads = <<>>
    /\ pc = 0
    /\ textp = 0
    /\ st = "idle"
    /\ result = "none"
    /\ native = NativeIdle
    /\ call2 = NoCall

NextNative == NativeCompile

\* native_compile on hand-built programs
SpecNative == InitNative /\ [][NextNative]_vars

\* a call of match is one synchronous computation: it keeps taking steps
FairSpecProg == SpecProg /\ WF_vars(NextProg)

-----------------------------------------------------------------------------
(* The reference the claims compare the program with *)

\* w belongs to the language of e: Lit(c) = {c}, Seq = concatenation, Alt = union
RECURSIVE InLang(_, _)
InLang(e, w) ==
    IF e.tag = "Lit" THEN w = e.value
    ELSE IF e.tag = "Seq" THEN
        \E i \in 0..Len(w) :
            InLang(e.left, SubSeq(w, 1, i)) /\ InLang(e.right, SubSeq(w, i + 1, Len(w)))
    ELSE InLang(e.left, w) \/ InLang(e.right, w)

PrefixInLang(e, s) == \E n \in 0..Len(s) : InLang(e, SubSeq(s, 1, n))

\* the targets of the instruction at address i of p
Targets(p, i) ==
    IF p[i + 1].op = "Jump" THEN {i + 1 + p[i + 1].target}
    ELSE IF p[i + 1].op = "Split"
         THEN {i + 1 + p[i + 1].target1, i + 1 + p[i + 1].target2}
         ELSE {}

\* every Jump/Split target of p lies inside [0, len(p)]
OffsetInvariant(p) == \A i \in 0..(Len(p) - 1) : Targets(p, i) \subseteq 0..Len(p)

Returned == st = "done" /\ result \in {"true", "false"}

-----------------------------------------------------------------------------
(* C1: match(compile(e), s) returns true exactly when some prefix of s is in
   the language of e, for every e built from Lit, Seq and Alt. The code
   violates it: the Jump of an Alt skips one instruction too many. *)
C1_ExecutorCompilerAgreement ==
    (st = "done" /\ compiled.err = "none")
        => /\ result \in {"true", "false"}
           /\ (result = "true") <=> PrefixInLang(expr, text)

(* C2: compile(Alt(a, b)) is exactly [Split(0, len(L)+1)] ++ L ++
   [Jump(len(R))] ++ R with L = compile(a), R = compile(b). The code emits
   Jump(len(R) + 1). *)
C2_AltAddressing ==
    (compiled.err = "none" /\ expr.tag = "Alt")
        => LET L == compile(expr.left).prog
               R == compile(expr.right).prog
           IN compiled.prog = <<Split(0, Len(L) + 1)>> \o L \o <<Jump(Len(R))>> \o R

(* C3: every Jump and Split target of a compiled program lies inside
   [0, len(program)]. The code's Jump of a trailing Alt lands on
   len(program) + 1. *)
C3_CompiledOffsetInvariant ==
    compiled.err = "none" => OffsetInvariant(compiled.prog)

\* e holds, at some depth, a Lit of length other than 1 or a Maybe, Star or Plus
RECURSIVE HasUnsupported(_)
HasUnsupported(e) ==
    IF e.tag = "Lit" THEN Len(e.value) # 1
    ELSE IF e.tag \in {"Seq", "Alt"}
         THEN HasUnsupported(e.left) \/ HasUnsupported(e.right)
         ELSE TRUE

(* C8: a tree holding at any depth a Lit of length other than 1, or a Maybe,
   Star or Plus, makes compile end in an error and return no program; a Lit
   of exactly one character c compiles to exactly [Char(c)]. *)
C8_CompilationErrors ==
    compiled # Pending
        => /\ HasUnsupported(expr)
                => /\ compiled.err \in {"AssertionError", "NotImplementedError"}
                   /\ DOMAIN compiled = {"err"}
           /\ (expr.tag = "Lit" /\ Len(expr.value) = 1)
                => compiled = Ok(<<Char(expr.value)>>)

\* compile has raised on a bad literal nested under an operator
C8_Witness ==
    /\ compiled.err = "AssertionError"
    /\ expr.tag \in {"Seq", "Alt"}
    /\ expr.left.tag \in {"Seq", "Alt"}

(* C9: compile(Seq(a, b)) is compile(a) followed by compile(b), unchanged,
   and so compile(Seq(Seq(a, b), c)) = compile(Seq(a, Seq(b, c))). *)
C9_SeqConcatenation ==
    (compiled # Pending /\ expr.tag = "Seq"
     /\ compile(expr.left).err = "none" /\ compile(expr.right).err = "none")
        => /\ compiled = Ok(compile(expr.left).prog \o compile(expr.right).prog)
           /\ expr.left.tag = "Seq"
                => compiled = compile(SeqExpr(expr.left.left,
                                              SeqExpr(expr.left.right, expr.right)))

\* a left-nested sequence has been compiled
C9_Witness ==
    /\ compiled.err = "none"
    /\ expr.tag = "Seq"
    /\ expr.left.tag = "Seq"

-----------------------------------------------------------------------------
(* Hand-built programs *)

\* the recursive backtracking strategy, entered at (bpc, btp); `visiting` holds
\* the coordinates the current chain of continuations has passed through, and
\* meeting one of them again means the recursion never returns
RECURSIVE Backtrack(_, _, _, _, _)
Backtrack(p, s, bpc, btp, visiting) ==
    IF bpc >= Len(p) THEN "true"
    ELSE IF <<bpc, btp>> \in visiting THEN "diverges"
    ELSE LET op == p[bpc + 1]
             seen == visiting \cup {<<bpc, btp>>}
         IN IF op.op = "Char" THEN
                IF btp >= Len(s) \/ <<s[btp + 1]>> # op.value THEN "false"
                ELSE Backtrack(p, s, bpc + 1, btp + 1, seen)
            ELSE IF op.op = "Jump" THEN Backtrack(p, s, bpc + 1 + op.target, btp, seen)
            ELSE IF op.op = "Match" THEN "true"
            ELSE IF op.op = "Split" THEN
                LET first == Backtrack(p, s, bpc + 1 + op.target1, btp, seen) IN
                IF first \in {"true", "diverges", "unsupported"} THEN first
                ELSE Backtrack(p, s, bpc + 1 + op.target2, btp, seen)
            ELSE "unsupported"

(* C4: on a program that satisfies the offset invariant and a text on which
   match does not raise, match returns the boolean the recursive backtracking
   strategy returns. *)
C4_StrategiesAgree ==
    (Returned /\ OffsetInvariant(ops)) => Backtrack(ops, text, 0, 0, {}) = result

\* match has returned true on a program that loops backward: a Char and a
\* Split whose eager continuation goes back to it, run until the Char failed
\* and the deferred continuation fell off the end
C4_Witness ==
    /\ Returned
    /\ result = "true"
    /\ Len(ops) = 2
    /\ ops[1].op = "Char"
    /\ ops[2].op = "Split"
    /\ ops[2].target1 = -2
    /\ ops[2].target2 = 0
    /\ textp >= 1

(* C5: the pending list never holds more than MAX_THREADS threads, and a
   Split executed when it holds MAX_THREADS makes match raise: nothing is
   pushed, nothing is dropped, no boolean is returned. *)
C5_PendingCeiling ==
    /\ [](Len(threads) <= MAX_THREADS)
    /\ [][(Fetching("Split") /\ Len(threads) = MAX_THREADS)
            => /\ st' = "done"
               /\ result' = "RuntimeError"
               /\ threads' = threads]_vars

\* match has raised with the pending list full
C5_Witness ==
    /\ st = "done"
    /\ result = "RuntimeError"
    /\ Len(threads) = MAX_THREADS

\* every offset of p is non-negative and every target lies inside [0, len(p)]
Forward(p) ==
    /\ OffsetInvariant(p)
    /\ \A i \in 0..(Len(p) - 1) : \A t \in Targets(p, i) : t >= i + 1

\* some path from (i, tp), free to take either continuation of each Split,
\* reaches a Match or the end of p without failing a Char
RECURSIVE PathAccepts(_, _, _, _)
PathAccepts(p, s, i, tp) ==
    IF i >= Len(p) THEN TRUE
    ELSE LET op == p[i + 1] IN
         IF op.op = "Char" THEN
            /\ tp < Len(s)
            /\ <<s[tp + 1]>> = op.value
            /\ PathAccepts(p, s, i + 1, tp + 1)
         ELSE IF op.op = "Jump" THEN PathAccepts(p, s, i + 1 + op.target, tp)
         ELSE IF op.op = "Match" THEN TRUE
         ELSE IF op.op = "Split" THEN
            \/ PathAccepts(p, s, i + 1 + op.target1, tp)
            \/ PathAccepts(p, s, i + 1 + op.target2, tp)
         ELSE FALSE

(* C6: on a program with only forward in-range offsets, when match does not
   raise, it returns true if and only if some path from (0, 0) accepts. *)
C6_NoLostBranch ==
    (Returned /\ Forward(ops))
        => ((result = "true") <=> PathAccepts(ops, text, 0, 0))

\* match has returned true although the eager continuation of the first Split
\* has no accepting path: the deferred one was run
C6_Witness ==
    /\ Returned
    /\ result = "true"
    /\ Forward(ops)
    /\ ops # <<>>
    /\ ops[1].op = "Split"
    /\ ~PathAccepts(ops, text, 1 + ops[1].target1, 0)

\* p holds only the four instructions run_thread knows
Known(p) == \A i \in 1..Len(p) : p[i].op \in {"Char", "Jump", "Match", "Split"}

Ended == st = "done" /\ result \in {"true", "false", "RuntimeError"}

(* C7 as claimed: on every program that satisfies the offset invariant,
   backward offsets allowed, a call of match eventually ends. *)
C7_TerminationAnyOffsets ==
    (st = "match" /\ Known(ops) /\ OffsetInvariant(ops)) ~> Ended

(* C7, amended: on every program whose offsets are all non-negative and whose
   targets lie inside [0, len(program)], a call of match eventually ends,
   returning a boolean or raising resource exhaustion. *)
C7_TerminationForward ==
    (st = "match" /\ Known(ops) /\ Forward(ops)) ~> Ended

\* a call on a forward program with a Split has ended after both threads failed
C7_Witness ==
    /\ Ended
    /\ result = "false"
    /\ Known(ops)
    /\ Forward(ops)
    /\ Len(ops) >= 2
    /\ ops[1].op = "Split"

AllChar(p) == \A i \in 1..Len(p) : p[i].op = "Char"

\* s is at least as long as p and carries p's characters in order
CharsMatch(p, s) ==
    /\ Len(s) >= Len(p)
    /\ \A i \in 1..Len(p) : <<s[i]>> = p[i].value

(* C10: a thread at a Match or past the last instruction makes match return
   true, whatever input remains and whatever follows the Match; so a program
   of only Char instructions c1..cn (the empty program too) returns true
   exactly when the text has at least n characters and begins c1..cn. *)
C10_PrefixAcceptance ==
    /\ []((st = "done" /\ AllChar(ops))
            => result = (IF CharsMatch(ops, text) THEN "true" ELSE "false"))
    /\ [][((st = "run" /\ pc >= Len(ops)) \/ Fetching("Match"))
            => (st' = "done" /\ result' = "true")]_vars

\* match has returned true at a Match with input unconsumed and instructions
\* left after it
C10_Witness ==
    /\ st = "done"
    /\ result = "true"
    /\ pc >= 1
    /\ pc < Len(ops)
    /\ ops[pc].op = "Match"
    /\ textp < Len(text)

-----------------------------------------------------------------------------
(* C11: as soon as one thread reports success match returns true: the step
   that sets the result ends the call with the pending list as it was, and
   nothing is popped or run after it. *)
C11_ShortCircuit ==
    /\ [][(result # "true" /\ result' = "true")
            => (st' = "done" /\ threads' = threads)]_vars
    /\ [][result = "true" => UNCHANGED vars]_vars

\* match has returned true with a deferred thread still pending
C11_Witness ==
    /\ st = "done"
    /\ result = "true"
    /\ threads # <<>>

C15_RelativeAddressing ==
    /\ [][Fetching("Jump")
            => /\ pc' = (pc - 1) + 1 + Op.target
               /\ textp' = textp
               /\ threads' = threads]_vars
    /\ [][(Fetching("Split") /\ Len(threads) < MAX_THREADS)
            => /\ pc' = (pc - 1) + 1 + Op.target1
               /\ textp' = textp
               /\ threads' = threads \o <<[pc |-> (pc - 1) + 1 + Op.target2,
                                           textp |-> textp]>>]_vars

\* a Split with two different offsets has been executed after a character was
\* consumed: the deferred thread carries the input position 1
C15_Witness ==
    /\ st = "run"
    /\ textp = 1
    /\ Len(ops) = 2
    /\ ops[2].op = "Split"
    /\ ops[2].target1 # ops[2].target2
    /\ threads = <<[pc |-> 2 + ops[2].target2, textp |-> 1]>>
    /\ pc = 2 + ops[2].target1

(* C16 as claimed: a Split whose push would bring the pending count to
   MAX_THREADS raises before pushing, so the pending list never holds
   MAX_THREADS threads. *)
C16_CeilingNeverReached == Len(threads) < MAX_THREADS

(* C16, amended: a Split raises only when the pending list already holds
   MAX_THREADS threads; with fewer it pushes and goes on, so the list can hold
   exactly MAX_THREADS threads and never more. *)
C16_CeilingThreshold ==
    /\ [](Len(threads) <= MAX_THREADS)
    /\ [][(Fetching("Split") /\ Len(threads) < MAX_THREADS)
            => /\ Len(threads') = Len(threads) + 1
               /\ st' = "run"
               /\ result' = "none"]_vars
    /\ [][(result # "RuntimeError" /\ result' = "RuntimeError")
            => (Fetching("Split") /\ Len(threads) = MAX_THREADS)]_vars

\* the pending list holds MAX_THREADS threads and the call is still running
C16_Witness ==
    /\ Len(threads) = MAX_THREADS
    /\ st = "run"
    /\ result = "none"

(* C17: a deferred thread is started only after the running thread has failed
   a Char (or at the start of the call), so the eager continuation of a Split
   is run to its end first; a Split puts its deferred thread last on the
   list and the thread started is the last of the list: last in, first out. *)
C17_ExplorationOrder ==
    /\ [][(st # "match" /\ st' = "match")
            => (Fetching("Char") /\ CharFails(text, textp, Op.value))]_vars
    /\ [][(st' = "run" /\ st # "run" /\ st # "exec")
            => /\ st = "match"
               /\ threads # <<>>
               /\ pc' = threads[Len(threads)].pc
               /\ textp' = threads[Len(threads)].textp
               /\ threads' = SubSeq(threads, 1, Len(threads) - 1)]_vars
    /\ [][(Fetching("Split") /\ st' = "run")
            => /\ Len(threads') = Len(threads) + 1
               /\ SubSeq(threads', 1, Len(threads)) = threads
               /\ threads'[Len(threads')].pc = pc + Op.target2]_vars

\* a thread has failed with two different threads pending: the newer is next
C17_Witness ==
    /\ st = "match"
    /\ Len(threads) >= 2
    /\ threads[Len(threads)] # threads[1]

-----------------------------------------------------------------------------
(* Programs that start with a chain of Splits *)

\* the number k of consecutive Splits with first offset 0 that p starts with
LeadingSplits(p) ==
    Cardinality({n \in 1..Len(p) :
                    \A i \in 1..n : p[i].op = "Split" /\ p[i].target1 = 0})

NoOtherSplit(p) == \A i \in (LeadingSplits(p) + 1)..Len(p) : p[i].op # "Split"

(* C12 as claimed: on a program that starts with k consecutive Splits with
   first offset 0, match raises resource exhaustion if and only if
   k > MAX_THREADS. *)
C12_RaisesIffPastCeiling ==
    st = "done" => ((result = "RuntimeError") <=> (LeadingSplits(ops) > MAX_THREADS))

(* C12, amended: such a program makes match raise resource exhaustion if
   k > MAX_THREADS; if k <= MAX_THREADS, the program holds no other Split and
   no offset is negative, match does not raise it. *)
C12_RaisesPastCeiling ==
    st = "done"
        => /\ LeadingSplits(ops) > MAX_THREADS => result = "RuntimeError"
           /\ (LeadingSplits(ops) <= MAX_THREADS /\ NoOtherSplit(ops) /\ Forward(ops))
                => result # "RuntimeError"

\* a chain of exactly MAX_THREADS Splits has been run through every one of its
\* paths without raising
C12_Witness ==
    /\ st = "done"
    /\ result = "false"
    /\ LeadingSplits(ops) = MAX_THREADS
    /\ NoOtherSplit(ops)

-----------------------------------------------------------------------------
(* Compiled programs at run time *)

RECURSIVE NumAlts(_)
NumAlts(e) ==
    IF e.tag = "Lit" THEN 0
    ELSE IF e.tag = "Alt" THEN 1 + NumAlts(e.left) + NumAlts(e.right)
    ELSE IF e.tag = "Seq" THEN NumAlts(e.left) + NumAlts(e.right)
    ELSE NumAlts(e.expr)

\* the addresses of the Splits of p whose deferred thread starts at t.pc
OriginsOf(p, t) ==
    {a \in 0..(Len(p) - 1) : p[a + 1].op = "Split" /\ a + 1 + p[a + 1].target2 = t.pc}

(* C18: when e holds at most MAX_THREADS Alt nodes, match(compile(e), s) never
   raises resource exhaustion: the pending threads (the thread (0, 0) of the
   start aside) stem from distinct Splits at strictly increasing addresses, so
   they are never more than the Alt nodes of e. *)
C18_FewAltsNeverExhaust ==
    (compiled.err = "none" /\ NumAlts(expr) <= MAX_THREADS /\ st # "idle")
        => /\ result # "RuntimeError"
           /\ \A i \in 1..Len(threads) :
                \/ threads = <<Thread(0, 0)>>
                \/ /\ OriginsOf(ops, threads[i]) # {}
                   /\ \A j \in (i + 1)..Len(threads) :
                        \A a \in OriginsOf(ops, threads[i]) :
                            \A b \in OriginsOf(ops, threads[j]) : a < b
           /\ (threads # <<Thread(0, 0)>>) => Len(threads) <= NumAlts(expr)

\* a tree of exactly MAX_THREADS Alt nodes has filled the pending list and
\* match has gone on to return
C18_Witness ==
    /\ compiled.err = "none"
    /\ NumAlts(expr) = MAX_THREADS
    /\ Len(threads) = MAX_THREADS
    /\ st = "run"

(* C19: every offset of compile(e) is non-negative and every instruction is one
   run_thread knows; within a thread pc grows by at least one at every
   instruction executed and the instruction fetched lies inside the program,
   so a thread executes at most len(program) instructions; and every call
   match(compile(e), s) ends, never by the unsupported-instruction error. *)
C19_CompiledTermination ==
    /\ [](compiled.err = "none"
            => /\ Known(compiled.prog)
               /\ \A i \in 0..(Len(compiled.prog) - 1) :
                    \A t \in Targets(compiled.prog, i) : t >= i + 1)
    /\ [](st = "exec" => (pc >= 1 /\ pc <= Len(ops) /\ Op.op \in {"Char", "Jump", "Split"}))
    /\ [][(st = "run" /\ st' = "exec") => pc' = pc + 1]_vars
    /\ [][(st = "exec" /\ st' = "run") => pc' >= pc]_vars
    /\ [](result # "NotImplementedError")
    /\ (st = "match") ~> (st = "done")

\* match has returned false on a compiled alternation after both threads ran
C19_Witness ==
    /\ st = "done"
    /\ result = "false"
    /\ expr.tag = "Seq"
    /\ expr.left.tag = "Alt"

-----------------------------------------------------------------------------
(* Native lowering *)

\* the number a written literal denotes: base 16 after "0x", base 10 otherwise
RECURSIVE DigitsValue(_, _)
DigitsValue(digits, base) ==
    IF digits = <<>> THEN 0
    ELSE DigitsValue(SubSeq(digits, 1, Len(digits) - 1), base) * base
         + digits[Len(digits)]

LiteralValue(line) == DigitsValue(line.digits, IF line.prefix = "0x" THEN 16 ELSE 10)

(* C20: for a program of Char instructions only, native_compile emits three
   lines per Char(v), in program order: a compare of the byte at rdi with an
   immediate that, read as the hexadecimal literal it is written as, equals
   the character code of v, then jne .Lno_match, then inc rdi; for a program
   holding any other instruction it raises NotImplementedError and returns
   nothing. *)
C20_NativeLowering ==
    native # NativeIdle =>
        IF AllChar(ops)
        THEN /\ native.returned
             /\ Len(native.out) = 3 * Len(ops)
             /\ \A i \in 1..Len(ops) :
                  /\ native.out[3 * i - 2].ins = "cmpb [rdi], "
                  /\ LiteralValue(native.out[3 * i - 2]) = ord(ops[i].value)
                  /\ native.out[3 * i - 1] = Jne
                  /\ native.out[3 * i] = IncRdi
        ELSE /\ native.err = "NotImplementedError"
             /\ ~native.returned

-----------------------------------------------------------------------------
(* Two calls of match on one program *)

\* the locals of match(p, s) after line 131
NewCall(s) ==
    [text |-> s, threads |-> <<Thread(0, 0)>>, pc |-> 0, textp |-> 0,
     st |-> "match", result |-> "none"]

\* the instruction op executed by the call whose locals are c
ExecOf(op, c) ==
    IF op.op = "Char"
    THEN IF CharFails(c.text, c.textp, op.value)
         THEN [c EXCEPT !.st = "match"]
         ELSE [c EXCEPT !.st = "run", !.textp = c.textp + 1]
    ELSE IF op.op = "Jump"
    THEN [c EXCEPT !.st = "run", !.pc = JumpTarget(c.pc, op)]
    ELSE IF op.op = "Match"
    THEN [c EXCEPT !.st = "done", !.result = "true"]
    ELSE IF op.op = "Split"
    THEN IF TooManyThreads(c.threads)
         THEN [c EXCEPT !.st = "done", !.result = "RuntimeError"]
         ELSE [c EXCEPT !.st = "run",
                        !.threads = Push(c.threads, Deferred(c.pc, op, c.textp)),
                        !.pc = Eager(c.pc, op)]
    ELSE [c EXCEPT !.st = "done", !.result = "NotImplementedError"]

\* one step of match / run_thread on program p, as a function of the call's
\* locals: the steps MatchFail, PopThread, Fetch, ThreadEnd and Exec*
StepOf(p, c) ==
    IF c.st = "match"
    THEN IF c.threads = <<>>
         THEN [c EXCEPT !.st = "done", !.result = "false"]
         ELSE [c EXCEPT !.st = "run",
                        !.threads = PopRest(c.threads),
                        !.pc = PopTop(c.threads).pc,
                        !.textp = PopTop(c.threads).textp]
    ELSE IF c.st = "run"
    THEN IF c.pc < Len(p)
         THEN [c EXCEPT !.st = "exec", !.pc = c.pc + 1]
         ELSE [c EXCEPT !.st = "done", !.result = "true"]
    ELSE IF c.st = "exec"
    THEN ExecOf(p[c.pc], c)
    ELSE c

\* the second call working on the first call's list
SharedThreads(c) == threads

\* `threads` is a local of match: each call has the list it built at line 131
OwnThreads(c) == c.threads

\* a step of the second call
Step2 ==
    /\ call2.st \in {"match", "run", "exec"}
    /\ call2' = StepOf(ops, [call2 EXCEPT !.threads = OwnThreads(call2)])
    /\ UNCHANGED <<expr, compiled, ops, text, threads, pc, textp, st, result, native>>

\* programs on which a call ends: forward offsets only, and one chain of
\* Splits that goes past the ceiling
TwoPrograms ==
    {p \in Programs : Forward(p)} \cup {SplitChain(MAX_THREADS + 1, "next")}

\* match(ops, text) and match(ops, call2.text) have both run line 131
InitTwo ==
    /\ expr = NoExpr
    /\ compiled = Pending
    /\ ops \in TwoPrograms
    /\ text \in Texts
    /\ threads = <<Thread(0, 0)>>
    /\ pc = 0
    /\ textp = 0
    /\ st = "match"
    /\ result = "none"
    /\ native = NativeIdle
    /\ call2 \in {NewCall(s) : s \in Texts}

\* the steps of the two calls, interleaved in any order
NextTwo ==
    \/ MatchFail
    \/ PopThread
    \/ Fetch
    \/ ExecChar
    \/ ExecJump
    \/ ExecMatch
    \/ ExecSplit
    \/ ExecUnsupported
    \/ ThreadEnd
    \/ Step2

SpecTwo == InitTwo /\ [][NextTwo]_vars

\* what match(p, s) does when nothing else runs
RECURSIVE RunFrom(_, _)
RunFrom(p, c) == IF c.st = "done" THEN c.result ELSE RunFrom(p, StepOf(p, c))

RunAlone(p, s) == RunFrom(p, NewCall(s))

(* C13: no step of match or run_thread changes the program or a text, a step
   of one call leaves the other call's locals alone, and however the steps of
   two calls on the same program are interleaved, each call ends with the
   result it has when run alone. *)
C13_Independence ==
    /\ [][ops' = ops /\ text' = text /\ call2'.text = call2.text]_vars
    /\ [][call2' = call2 \/ <<threads, pc, textp, st, result>>' = <<threads, pc, textp, st, result>>]_vars
    /\ [](st = "done" => result = RunAlone(ops, text))
    /\ [](call2.st = "done" => call2.result = RunAlone(ops, call2.text))

\* both calls are in the middle of a thread, on different texts, and the
\* second holds a pending thread while the first has none
C13_Witness ==
    /\ st = "exec"
    /\ call2.st = "exec"
    /\ text # call2.text
    /\ threads = <<>>
    /\ call2.threads # <<>>

=============================================================================
